---- MODULE Spec2Model ----
(***************************************************************************)
(* A model of split_with_ffmpeg.py: the naming codec (format_part_filename *)
(* and its recognisers), the size-bound planner                            *)
(* (calculate_parts_from_target_size, in IEEE-754 double arithmetic as     *)
(* Python computes it), the time ranges split_with_ffmpeg gives the parts  *)
(* of a job, and the run of main() over a small filesystem.                *)
(*                                                                         *)
(* File names are strings; a path is a pair <<directory, name>>.           *)
(* File sizes and the --maxtargetsize limit are whole MiB: a power-of-two  *)
(* unit, so every floating-point result equals the one computed on bytes.  *)
(***************************************************************************)
EXTENDS Integers, Sequences, FiniteSets, TLC

VARIABLES
    \* ---- the naming codec on its own (SpecNaming, SpecParts)
    nBase, nExt, nPattern, nTotal, nIndex, nName, nDisk, nRec,
    \* ---- the planner on its own (SpecPlan)
    pSize, pMax, pParts,
    \* ---- the time ranges of one job on their own (SpecRanges)
    tDuration,    \* what ffprobe prints for the source, in whole seconds
    tParts,       \* n_parts
    tMissing,     \* missing_indices
    tCmds,        \* the ffmpeg command lines built so far
    \* ---- runs of main() over a filesystem (Spec)
    args,         \* the command line, but for --dry-run
    fs,           \* the regular files: path |-> [size, ok]; ok: ffprobe reads it
    dirs,         \* the directories that exist
    run,          \* how many runs have started
    dry_run,      \* --dry-run of the current run
    pc,           \* where the current run is
    exit_code,    \* the exit status of the run once pc is "exited"
    candidates,   \* main's candidates: a sequence of <<file, source_path>>
    ci,           \* the candidate the classification loop is at
    lists,        \* to_skip_part, to_skip_small, to_skip_complete, to_auto_move, to_split
    ji,           \* the job of to_split the execution loop is at
    job,          \* the locals of split_with_ffmpeg while it runs
    skiplog,      \* the action log (SKIP_LOG_PATH)
    details,      \* the completion log (DETAILS_LOG_PATH)
    invocations,  \* every ffmpeg command line run so far
    jobs_done,    \* what the jobs of the current run returned
    faults,       \* how many commands or system calls have failed so far
    reversed,     \* the order in which os.listdir returns entries
    fs_start,     \* fs as the current run found it
    warned,       \* the current run has printed the warning of line 342
    history       \* one record per finished run

namingVars == <<nBase, nExt, nPattern, nTotal, nIndex, nName, nDisk, nRec>>
planVars == <<pSize, pMax, pParts>>
rangeVars == <<tDuration, tParts, tMissing, tCmds>>
mainVars == <<args, fs, dirs, run, dry_run, pc, exit_code, candidates, ci, lists,
              ji, job, skiplog, details, invocations, jobs_done, faults,
              reversed, fs_start, warned, history>>
vars == <<namingVars, planVars, rangeVars, mainVars>>

\* bounds of the model
MaxTotal == 12      \* SpecNaming, SpecParts, SpecRanges: the largest total_parts
MaxDisk == 2        \* SpecParts: the most part files on disk
MaxSizeMiB == 343   \* SpecPlan: the largest file size
MaxLimitMiB == 14   \* SpecPlan: the largest --maxtargetsize
MaxDuration == 7    \* SpecRanges: the longest source, in seconds
MaxRuns == 2        \* Spec: the runs of one behaviour
MaxParts == 2       \* Spec: the largest fixed part count on the command line
MaxFaults == 1      \* Spec: the failing commands and system calls of one behaviour
LimitMiB == 2       \* Spec: the --maxtargetsize limit
BigFileMiB == 5     \* Spec: the size of a file above the limit

(***************************************************************************)
(* Strings.                                                                *)
(***************************************************************************)
StartsWith(s, p) == Len(p) <= Len(s) /\ SubSeq(s, 1, Len(p)) = p

EndsWith(s, suf) ==
    Len(suf) <= Len(s) /\ SubSeq(s, Len(s) - Len(suf) + 1, Len(s)) = suf

\* c in s, for a one-character c
Contains(s, c) == \E i \in 1..Len(s) : SubSeq(s, i, i) = c

\* str.replace(old, new): the non-overlapping occurrences, left to right
RECURSIVE Replace(_, _, _)
Replace(s, old, new) ==
    IF s = "" THEN ""
    ELSE IF StartsWith(s, old)
         THEN new \o Replace(SubSeq(s, Len(old) + 1, Len(s)), old, new)
         ELSE SubSeq(s, 1, 1) \o Replace(SubSeq(s, 2, Len(s)), old, new)

\* f"{n:0{width}d}" applied to str(n)
RECURSIVE ZeroPad(_, _)
ZeroPad(s, width) == IF Len(s) >= width THEN s ELSE ZeroPad("0" \o s, width)

\* os.path.splitext of a name without a directory: the extension starts at
\* the last dot, unless only dots precede it
LastDot(name) ==
    LET dots == {i \in 1..Len(name) : SubSeq(name, i, i) = "."}
    IN IF dots = {} THEN 0 ELSE CHOOSE i \in dots : \A j \in dots : j <= i

splitext(name) ==
    LET d == LastDot(name)
    IN IF d > 0 /\ \E i \in 1..(d - 1) : SubSeq(name, i, i) # "."
       THEN <<SubSeq(name, 1, d - 1), SubSeq(name, d, Len(name))>>
       ELSE <<name, "">>

(***************************************************************************)
(* NamingScheme.                                                           *)
(***************************************************************************)
\* the patterns of the model (-e/--exists-pattern); the first is the default
DefaultPattern == "_part_#_of_##"
Patterns == {DefaultPattern, "_#of##", "###", "_of_##", "_x", ""}

\* range(2, 100), the totals the recognisers search
MinSearchTotal == 2
MaxSearchTotal == 99
SearchTotals == MinSearchTotal..MaxSearchTotal

\* a suffix that writes the total where the part number belongs
suffix_without_part(pattern, part_num, total_parts) ==
    Replace(Replace(pattern, "##", ToString(total_parts)), "#",
            ToString(total_parts))

\* the single placeholder replaced before the double one
suffix_single_first(pattern, part_num, total_parts) ==
    LET width == IF total_parts >= 10 THEN Len(ToString(total_parts)) ELSE 0
        part_str == IF width > 0 THEN ZeroPad(ToString(part_num), width)
                    ELSE ToString(part_num)
        total_str == IF width > 0 THEN ZeroPad(ToString(total_parts), width)
                     ELSE ToString(total_parts)
    IN Replace(Replace(pattern, "#", part_str), "##", total_str)

\* lines 118-121: the suffix a pattern generates for part part_num of total_parts
part_suffix(pattern, part_num, total_parts) ==
    LET width == IF total_parts >= 10 THEN Len(ToString(total_parts)) ELSE 0
        part_str == IF width > 0 THEN ZeroPad(ToString(part_num), width)
                    ELSE ToString(part_num)
        total_str == IF width > 0 THEN ZeroPad(ToString(total_parts), width)
                     ELSE ToString(total_parts)
    IN Replace(Replace(pattern, "##", total_str), "#", part_str)

format_part_filename(base_name, ext, part_num, total_parts, pattern) ==
    base_name \o part_suffix(pattern, part_num, total_parts) \o ext

\* expected_suffix of the recognisers' loops (lines 146-150, 158-162, 200-205),
\* the same computation, tabulated once per pattern and searched total
expected_suffix_table ==
    [p \in Patterns |->
        [t \in SearchTotals |-> [k \in 1..t |-> part_suffix(p, k, t)]]]

expected_suffix(pattern, part_num, total_parts) ==
    expected_suffix_table[pattern][total_parts][part_num]

Min(S) == CHOOSE m \in S : \A y \in S : m <= y

TailOf(s, n) == SubSeq(s, Len(s) - n + 1, Len(s))

\* Every suffix of a pattern is at least SuffixKeyLen(pattern) characters long,
\* so a name can only end with the suffixes that share its last SuffixKeyLen
\* characters.  suffix_index files the suffixes of the search range under those
\* characters; for each distinct suffix it keeps the total_parts values that
\* produce it and the (total, part) at which the nested loops reach it first.
SuffixKeyLen(pattern) ==
    IF Len(expected_suffix(pattern, 1, MinSearchTotal)) < 2
    THEN Len(expected_suffix(pattern, 1, MinSearchTotal)) ELSE 2

SearchPairs == {tk \in SearchTotals \X (1..MaxSearchTotal) : tk[2] <= tk[1]}

SuffixKey(p, tk) == TailOf(expected_suffix(p, tk[2], tk[1]), SuffixKeyLen(p))

\* the first part of the least total among pairs
FirstPart(pairs, total) == Min({tk[2] : tk \in {x \in pairs : x[1] = total}})

SuffixEntry(s, pairs) ==
    [suffix |-> s, totals |-> {tk[1] : tk \in pairs},
     total |-> Min({tk[1] : tk \in pairs}),
     part |-> FirstPart(pairs, Min({tk[1] : tk \in pairs}))]

SuffixEntries(p, bucket) ==
    {SuffixEntry(s, {tk : tk \in {x \in bucket :
                                     expected_suffix(p, x[2], x[1]) = s}}) :
        s \in {expected_suffix(p, tk[2], tk[1]) : tk \in bucket}}

suffix_index ==
    [p \in Patterns |->
        [key \in {SuffixKey(p, tk) : tk \in SearchPairs} |->
            UNION {SuffixEntries(p, bucket) :
                      bucket \in {{tk : tk \in {x \in SearchPairs :
                                                  SuffixKey(p, x) = key}}}}]]

\* the suffixes filed under key that end name_no_ext
MatchesUnder(name_no_ext, entries) ==
    {m \in entries : EndsWith(name_no_ext, m.suffix)}

\* the suffixes of the search range that end name_no_ext
SuffixMatches(name_no_ext, pattern) ==
    IF Len(name_no_ext) < SuffixKeyLen(pattern) THEN {}
    ELSE IF TailOf(name_no_ext, SuffixKeyLen(pattern)) \notin DOMAIN suffix_index[pattern]
    THEN {}
    ELSE MatchesUnder(name_no_ext,
             suffix_index[pattern][TailOf(name_no_ext, SuffixKeyLen(pattern))])

is_already_a_part(filename, pattern) ==
    IF ~Contains(pattern, "#") THEN FALSE
    ELSE SuffixMatches(splitext(filename)[1], pattern) # {}

\* the match the nested loops return on: name_no_ext[:-len(suffix)] is the
\* empty string when the suffix is empty
MatchAt(name_no_ext, m) ==
    [ok |-> TRUE, total |-> m.total, part |-> m.part,
     base |-> IF Len(m.suffix) = 0 THEN ""
              ELSE SubSeq(name_no_ext, 1, Len(name_no_ext) - Len(m.suffix))]

\* a name no suffix ends is taken as its own base
name_as_base(name_no_ext, matches) ==
    IF matches = {} THEN [ok |-> TRUE, total |-> 0, part |-> 0, base |-> name_no_ext]
    ELSE MatchAt(name_no_ext,
                 CHOOSE x \in matches : \A y \in matches :
                     x.total < y.total \/ (x.total = y.total /\ x.part <= y.part))

FirstOf(name_no_ext, matches) ==
    IF matches = {} THEN [ok |-> FALSE, total |-> 0, part |-> 0, base |-> ""]
    ELSE MatchAt(name_no_ext,
                 CHOOSE x \in matches : \A y \in matches :
                     x.total < y.total \/ (x.total = y.total /\ x.part <= y.part))

\* the first (total_parts, part_num) the nested loops reach whose suffix ends
\* the name: ok = FALSE when the loops run out
first_match(filename, pattern) ==
    FirstOf(splitext(filename)[1], SuffixMatches(splitext(filename)[1], pattern))

BaseOf(m) == [ok |-> m.ok, base |-> m.base]

\* None is [ok |-> FALSE]
get_base_name_without_suffix(filename, pattern) ==
    BaseOf(first_match(filename, pattern))

(***************************************************************************)
(* Python's float: IEEE-754 binary64, round to nearest, ties to even.      *)
(* A natural number beyond 2^31 is a little-endian sequence of limbs in    *)
(* base 2^15 without high zero limbs; a positive float is [m, e], the     *)
(* value m * 2^e with m of at most 53 bits.                                *)
(***************************************************************************)
LimbBits == 15
LimbBase == 2 ^ LimbBits
DoubleBits == 53

Max(a, b) == IF a >= b THEN a ELSE b

RECURSIVE BigNorm(_)
BigNorm(a) ==
    IF a = <<>> THEN a
    ELSE IF a[Len(a)] = 0 THEN BigNorm(SubSeq(a, 1, Len(a) - 1)) ELSE a

RECURSIVE BigFromInt(_)
BigFromInt(n) ==
    IF n = 0 THEN <<>> ELSE <<n % LimbBase>> \o BigFromInt(n \div LimbBase)

RECURSIVE BigToInt(_)
BigToInt(a) == IF a = <<>> THEN 0 ELSE a[1] + LimbBase * BigToInt(Tail(a))

Limb(a, i) == IF i <= Len(a) THEN a[i] ELSE 0

BigAdd(a, b) ==
    LET n == Max(Len(a), Len(b))
        RECURSIVE go(_, _)
        go(i, c) ==
            IF i > n THEN (IF c = 0 THEN <<>> ELSE <<c>>)
            ELSE LET t == Limb(a, i) + Limb(b, i) + c
                 IN <<t % LimbBase>> \o go(i + 1, t \div LimbBase)
    IN go(1, 0)

\* a - b, for a >= b
BigSub(a, b) ==
    LET RECURSIVE go(_, _)
        go(i, c) ==
            IF i > Len(a) THEN <<>>
            ELSE LET t == Limb(a, i) - Limb(b, i) - c
                 IN IF t < 0 THEN <<t + LimbBase>> \o go(i + 1, 1)
                    ELSE <<t>> \o go(i + 1, 0)
    IN BigNorm(go(1, 0))

\* -1, 0, 1 as a < b, a = b, a > b
BigCmp(a, b) ==
    LET RECURSIVE go(_)
        go(i) ==
            IF i = 0 THEN 0
            ELSE IF a[i] < b[i] THEN -1
            ELSE IF a[i] > b[i] THEN 1
            ELSE go(i - 1)
    IN IF Len(a) < Len(b) THEN -1
       ELSE IF Len(a) > Len(b) THEN 1
       ELSE go(Len(a))

\* a * d, for 0 <= d < LimbBase
BigMulSmall(a, d) ==
    LET RECURSIVE go(_, _)
        go(i, c) ==
            IF i > Len(a) THEN (IF c = 0 THEN <<>> ELSE <<c>>)
            ELSE LET t == a[i] * d + c
                 IN <<t % LimbBase>> \o go(i + 1, t \div LimbBase)
    IN IF d = 0 THEN <<>> ELSE go(1, 0)

ZeroLimbs(n) == [i \in 1..n |-> 0]

BigMul(a, b) ==
    LET RECURSIVE go(_)
        go(i) ==
            IF i > Len(b) THEN <<>>
            ELSE LET row == BigMulSmall(a, b[i])
                 IN BigAdd(IF row = <<>> THEN <<>> ELSE ZeroLimbs(i - 1) \o row,
                           go(i + 1))
    IN go(1)

\* a * 2^k
BigShl(a, k) ==
    IF a = <<>> THEN <<>>
    ELSE ZeroLimbs(k \div LimbBits) \o BigMulSmall(a, 2 ^ (k % LimbBits))

\* floor(a / d), for 0 < d < LimbBase
BigDivSmall(a, d) ==
    LET RECURSIVE go(_, _)
        go(i, r) ==
            IF i = 0 THEN <<>>
            ELSE LET t == r * LimbBase + a[i]
                 IN go(i - 1, t % d) \o <<t \div d>>
    IN BigNorm(go(Len(a), 0))

\* floor(a / 2^k)
BigShr(a, k) ==
    IF k \div LimbBits >= Len(a) THEN <<>>
    ELSE BigDivSmall(SubSeq(a, k \div LimbBits + 1, Len(a)), 2 ^ (k % LimbBits))

RECURSIVE IntBitLen(_)
IntBitLen(n) == IF n = 0 THEN 0 ELSE 1 + IntBitLen(n \div 2)

BigBitLen(a) ==
    IF a = <<>> THEN 0 ELSE LimbBits * (Len(a) - 1) + IntBitLen(a[Len(a)])

\* bit i of a, the lowest being bit 0
BigBit(a, i) == (Limb(a, i \div LimbBits + 1) \div 2 ^ (i % LimbBits)) % 2

\* the largest d < LimbBase with d * b <= r, for r < LimbBase * b: found a bit
\* at a time, from the highest
QuotDigit(r, b) ==
    LET RECURSIVE dig(_, _)
        dig(j, d) ==
            IF j < 0 THEN d
            ELSE IF BigCmp(BigMulSmall(b, d + 2 ^ j), r) <= 0
                 THEN dig(j - 1, d + 2 ^ j)
                 ELSE dig(j - 1, d)
    IN dig(LimbBits - 1, 0)

\* <<floor(a / b), a mod b>>, for b > 0: long division, a limb at a time
BigDivMod(a, b) ==
    LET RECURSIVE go(_, _)
        go(i, r) ==
            IF i = 0 THEN <<<<>>, r>>
            ELSE LET r2 == BigNorm(<<a[i]>> \o r)
                     d == QuotDigit(r2, b)
                     rest == go(i - 1, BigSub(r2, BigMulSmall(b, d)))
                 IN <<rest[1] \o <<d>>, rest[2]>>
        qr == go(Len(a), <<>>)
    IN <<BigNorm(qr[1]), qr[2]>>

\* the double nearest to (m + f) * 2^e, where 0 <= f < 1 and sticky says f > 0
RoundToDouble(m, e, sticky) ==
    LET k == BigBitLen(m) - DoubleBits
    IN IF k <= 0 THEN [m |-> m, e |-> e]
       ELSE LET q == BigShr(m, k)
                rem == BigSub(m, BigShl(q, k))
                half == BigShl(<<1>>, k - 1)
                c == BigCmp(rem, half)
                up == \/ c > 0
                      \/ c = 0 /\ sticky
                      \/ c = 0 /\ ~sticky /\ BigBit(q, 0) = 1
            IN [m |-> IF up THEN BigAdd(q, <<1>>) ELSE q, e |-> e + k]

\* float(n), for an int 0 < n < 2^31
FloatOfInt(n) == [m |-> BigFromInt(n), e |-> 0]

\* x * y
FloatMul(x, y) == RoundToDouble(BigMul(x.m, y.m), x.e + y.e, FALSE)

\* x / y: the quotient to at least 55 bits and whether a remainder is left
FloatDiv(x, y) ==
    LET k == Max(0, BigBitLen(y.m) + DoubleBits + 2 - BigBitLen(x.m))
        qr == BigDivMod(BigShl(x.m, k), y.m)
    IN RoundToDouble(qr[1], x.e - y.e - k, qr[2] # <<>>)

\* math.ceil(x)
FloatCeil(x) ==
    IF x.e >= 0 THEN BigToInt(BigShl(x.m, x.e))
    ELSE LET ip == BigShr(x.m, -x.e)
         IN BigToInt(ip) + (IF BigShl(ip, -x.e) = x.m THEN 0 ELSE 1)

\* the literal 0.98: the double nearest to 98/100
Float098 == FloatDiv(FloatOfInt(98), FloatOfInt(100))

(***************************************************************************)
(* SegmentationPlanner.                                                    *)
(***************************************************************************)
\* the least count of equal parts within the limit itself, with no margin
parts_without_margin(file_size, max_target) ==
    IF file_size <= max_target THEN 1
    ELSE Max((file_size + max_target - 1) \div max_target, 2)

calculate_parts_from_target_size(file_size, max_target) ==
    IF file_size <= max_target THEN 1
    ELSE LET safe_target == FloatMul(FloatOfInt(max_target), Float098)
             n_parts == FloatCeil(FloatDiv(FloatOfInt(file_size), safe_target))
         IN Max(n_parts, 2)

\* target_dir of the codec's own specifications
CodecDir == "out"

generate_expected_parts(base_name, ext, target_dir, n_parts, pattern) ==
    [i \in 1..n_parts |->
        <<target_dir, format_part_filename(base_name, ext, i, n_parts, pattern)>>]

\* os.path.exists over a set of paths
get_existing_parts(expected_parts, disk) ==
    SelectSeq(expected_parts, LAMBDA p : p \in disk)

(***************************************************************************)
(* The filesystem and the two logs.                                        *)
(***************************************************************************)
basename(path) == path[2]

\* os.listdir restricted to regular files
listdir(f, dir) == {q[2] : q \in {x \in DOMAIN f : x[1] = dir}}

Remove(f, path) == [q \in DOMAIN f \ {path} |-> f[q]]

Put(f, path, v) == [q \in DOMAIN f \cup {path} |-> IF q = path THEN v ELSE f[q]]

get_file_size_bytes(f, path) == IF path \in DOMAIN f THEN f[path].size ELSE 0

\* get_duration returns a number: otherwise it ends the process with status 1
duration_ok(f, path) == path \in DOMAIN f /\ f[path].ok

log_action(log, path, action, reason) ==
    Append(log, [action |-> action, reason |-> reason, path |-> path])

\* The record log_detailed_completion appends.  The header is written first,
\* then the source's line, then one line per part; a probe that fails ends
\* the process and leaves what was written before it (closed = FALSE).
\* a record written without probing the source or the parts
record_unprobed(f, source_file, output_parts, n_parts) ==
    [source |-> source_file, n_parts |-> n_parts, parts |-> output_parts,
     closed |-> TRUE]

log_detailed_completion(f, source_file, output_parts, n_parts) ==
    LET header == [source |-> source_file, n_parts |-> n_parts,
                   parts |-> <<>>, closed |-> FALSE]
        unread == {i \in 1..Len(output_parts) : ~duration_ok(f, output_parts[i])}
    IN IF ~duration_ok(f, source_file) THEN header
       ELSE IF unread # {}
       THEN [header EXCEPT !.parts = SubSeq(output_parts, 1, Min(unread) - 1)]
       ELSE [header EXCEPT !.parts = output_parts, !.closed = TRUE]

\* the names ending with a video extension (lines 195 and 380)
video_extensions ==
    {".mp4", ".mkv", ".avi", ".mov", ".webm", ".flv", ".m4v", ".mpg", ".mpeg",
     ".ts", ".m2ts"}

(***************************************************************************)
(* move_processed_source and the auto-move test.  Each takes the           *)
(* filesystem, the directories and the action log and returns them as it   *)
(* leaves them.                                                            *)
(***************************************************************************)
archive_path(source_dir) == source_dir \o " source"

\* the source's own name, free or not
own_name(f, archive, name) == name

\* the name the source gets in the archive: its own, or the first free
\* <base>_<counter><ext>
archive_name(f, archive, name) ==
    IF <<archive, name>> \notin DOMAIN f THEN name
    ELSE LET se == splitext(name)
             numbered(k) == se[1] \o "_" \o ToString(k) \o se[2]
             counter == Min({k \in 1..(Cardinality(DOMAIN f) + 1) :
                                <<archive, numbered(k)>> \notin DOMAIN f})
         IN numbered(counter)

\* a move whose failure leaves no entry in the action log
move_unlogged(f, d, log, source_file, source_dir, outcome) ==
    LET archive == archive_path(source_dir)
        dest == <<archive, archive_name(f, archive, basename(source_file))>>
    IN IF outcome # "ok" \/ source_file \notin DOMAIN f
       THEN [fs |-> f, dirs |-> d, log |-> log]
       ELSE [fs |-> Put(Remove(f, source_file), dest, f[source_file]),
             dirs |-> d \cup {archive},
             log |-> log_action(log, source_file, "MOVED", archive)]

\* outcome: "ok", or the call that raises: "makedirs", "move"
move_processed_source(f, d, log, source_file, source_dir, outcome) ==
    LET archive == archive_path(source_dir)
        dest == <<archive, archive_name(f, archive, basename(source_file))>>
    IN IF outcome = "makedirs"
       THEN [fs |-> f, dirs |-> d,
             log |-> log_action(log, source_file, "MOVE FAILED", "makedirs")]
       ELSE IF outcome = "move" \/ source_file \notin DOMAIN f
       THEN [fs |-> f, dirs |-> d \cup {archive},
             log |-> log_action(log, source_file, "MOVE FAILED", "move")]
       ELSE [fs |-> Put(Remove(f, source_file), dest, f[source_file]),
             dirs |-> d \cup {archive},
             log |-> log_action(log, source_file, "MOVED", archive)]

SetMax(S) == CHOOSE m \in S : \A y \in S : y <= m

\* the totals for which some part suffix ends the name of a target file
possible_totals(name, pattern) ==
    UNION {m.totals : m \in SuffixMatches(splitext(name)[1], pattern)}

\* lines 194-207: the totals some video file of the target with the same
\* base is a part of
possible_n_parts(f, target_dir, pattern, base_name_no_suffix) ==
    UNION {possible_totals(n, pattern) :
              n \in {x \in listdir(f, target_dir) :
                        /\ \E e \in video_extensions : EndsWith(x, e)
                        /\ get_base_name_without_suffix(x, pattern)
                               = base_name_no_suffix}}

\* lines 212-216: every part of the largest total exists
all_parts_found(f, video_file, target_dir, pattern, base_name_no_suffix, possible) ==
    /\ base_name_no_suffix.ok
    /\ possible # {}
    /\ Len(get_existing_parts(
               generate_expected_parts(base_name_no_suffix.base,
                                       splitext(basename(video_file))[2],
                                       target_dir, SetMax(possible), pattern),
               DOMAIN f)) = SetMax(possible)

check_and_move_original_if_parts_complete(f, d, log, video_file, target_dir, pattern, source_dir, move_processed, outcome) ==
    IF all_parts_found(f, video_file, target_dir, pattern,
           get_base_name_without_suffix(basename(video_file), pattern),
           possible_n_parts(f, target_dir, pattern,
               get_base_name_without_suffix(basename(video_file), pattern)))
    THEN [found |-> TRUE,
          after |-> IF move_processed
                    THEN move_processed_source(f, d, log, video_file,
                                               source_dir, outcome)
                    ELSE [fs |-> f, dirs |-> d, log |-> log]]
    ELSE [found |-> FALSE, after |-> [fs |-> f, dirs |-> d, log |-> log]]

\* the values of the variables a specification does not use
NoRec == [done |-> FALSE, part |-> FALSE,
          m |-> [ok |-> FALSE, total |-> 0, part |-> 0, base |-> ""]]

IdleNaming ==
    /\ nBase = "" /\ nExt = "" /\ nPattern = "" /\ nTotal = 0
    /\ nIndex = 0 /\ nName = "" /\ nDisk = {} /\ nRec = NoRec

IdlePlan == pSize = 0 /\ pMax = 0 /\ pParts = 0

IdleRanges == tDuration = 0 /\ tParts = 0 /\ tMissing = <<>> /\ tCmds = <<>>

(***************************************************************************)
(* The runs of main().                                                     *)
(***************************************************************************)
SourceDirs == {"in", "in2"}

NoJob == [input_file |-> <<"", "">>, source_dir |-> "", n_parts |-> 0,
          expected_parts |-> <<>>, existing_parts |-> <<>>,
          missing_indices |-> <<>>, next |-> 0, status |-> "", kept |-> <<>>]

NoLists == [to_skip_part |-> <<>>, to_skip_small |-> <<>>,
            to_skip_complete |-> <<>>, to_auto_move |-> <<>>, to_split |-> <<>>]

NoExit == [code |-> 0, at |-> ""]

\* a size and a limit whose quotient by 0.98 of the limit is a whole number:
\* 1813 / (0.98 * 370) = 5
KnifeEdge == [size |-> 1813, limit |-> 370]

\* the sizes and limits the runs of main() plan with
PlannedPairs ==
    ((0..(BigFileMiB + 1)) \X {LimitMiB}) \cup {<<KnifeEdge.size, KnifeEdge.limit>>}

\* the planner on these, computed once (@@ makes the table an explicit one)
parts_for_size ==
    [x \in PlannedPairs |-> calculate_parts_from_target_size(x[1], x[2])] @@ <<>>

\* the part count main() gives a candidate that it neither skips as a part,
\* auto-moves nor skips as too small (lines 425-428)
n_parts_of(a, size) ==
    IF a.max.on THEN parts_for_size[<<size, a.max.mib>>] ELSE a.parts

\* the size of a part: the source's share, rounded up
part_size(size, n_parts) == (size + n_parts - 1) \div n_parts

\* the default of the positional argument parts
DefaultParts == 2

NoMax == [given |-> FALSE, valid |-> TRUE, mib |-> 0, on |-> FALSE]

\* parse_maxtargetsize on a well-formed size; "if max_target_bytes:" is the
\* truth value of the number
parse_maxtargetsize(mib) ==
    [given |-> TRUE, valid |-> TRUE, mib |-> mib, on |-> mib # 0]

\* the layouts of source roots and target: apart, the same, two roots
Apart == [roots |-> <<"in">>, target |-> "out"]
Same == [roots |-> <<"in">>, target |-> "in"]
TwoRoots == [roots |-> <<"in", "in2">>, target |-> "out"]

CommandLine(pattern, parts, max, moveprocessed, layout) ==
    [pattern |-> pattern, parts |-> parts, max |-> max,
     moveprocessed |-> moveprocessed, roots |-> layout.roots,
     target |-> layout.target]

File(size) == [size |-> size, ok |-> TRUE]

\* a file of the source root named as the first of two parts of a.ts
PartNamed(a, size) ==
    <<"in", format_part_filename("a", ".ts", 1, 2, a.pattern)>> :> File(size)

\* The filesystems a command line is started on: the source in/a.ts with
\* either one of `seconds` (each a filesystem of its own) beside it, or any of
\* the parts the command line gives a.ts already in the target.
ScenariosOf(a, size, seconds) ==
    LET n == n_parts_of(a, size)
        parts == generate_expected_parts("a", ".ts", a.target, n, a.pattern)
        source == <<"in", "a.ts">> :> File(size)
    IN {[args |-> a, fs |-> source @@ second] : second \in seconds}
       \cup {[args |-> a,
              fs |-> source @@ [q \in {parts[i] : i \in have}
                                   |-> File(part_size(size, n))]] :
                have \in SUBSET (1..n)}

FixedScenarios ==
    UNION {ScenariosOf(a, BigFileMiB,
                       {<<"in", "b.ts">> :> File(BigFileMiB),
                        PartNamed(a, BigFileMiB)}) :
              a \in {CommandLine(DefaultPattern, n, NoMax, mv, l) :
                        n \in 1..MaxParts, mv \in BOOLEAN, l \in {Apart, Same}}}

LimitScenarios ==
    UNION {ScenariosOf(x[1], x[2],
                       {PartNamed(x[1], LimitMiB), PartNamed(x[1], BigFileMiB)}) :
              x \in {CommandLine(DefaultPattern, DefaultParts,
                                 parse_maxtargetsize(LimitMiB), mv, l) :
                        mv \in BOOLEAN, l \in {Apart, Same}}
                    \X {LimitMiB, BigFileMiB}}

\* the two roots each hold an a.ts
TwoRootScenarios ==
    {[args |-> a,
      fs |-> (<<"in", "a.ts">> :> File(BigFileMiB))
              @@ (<<"in2", "a.ts">> :> File(BigFileMiB))] :
        a \in {CommandLine(DefaultPattern, n, NoMax, mv, TwoRoots) :
                  n \in 1..MaxParts, mv \in BOOLEAN}}

\* a pattern without a placeholder
HashlessScenarios ==
    UNION {ScenariosOf(a, BigFileMiB,
                       {PartNamed(a, BigFileMiB), PartNamed(a, LimitMiB)}) :
              a \in {CommandLine("_x", DefaultParts, max, mv, l) :
                        max \in {NoMax, parse_maxtargetsize(LimitMiB)},
                        mv \in BOOLEAN, l \in {Apart, Same}}}

\* one large source, a limit and an empty target
KnifeEdgeScenarios ==
    {[args |-> CommandLine(DefaultPattern, DefaultParts,
                           parse_maxtargetsize(KnifeEdge.limit), mv, Apart),
      fs |-> <<"in", "a.ts">> :> File(KnifeEdge.size)] : mv \in BOOLEAN}

\* a size parse_maxtargetsize does not parse: it ends the process
Unparsable == [given |-> TRUE, valid |-> FALSE, mib |-> 0, on |-> FALSE]

\* the part counts below 1 that argparse's type=int lets through
PartsBelowOne == {0, -1}

\* command lines with a limit of 0MB, with an unparsable limit, or with a
\* part count below 1
DegenerateScenarios ==
    {[args |-> a, fs |-> <<"in", "a.ts">> :> File(BigFileMiB)] :
        a \in {CommandLine(DefaultPattern, 1, parse_maxtargetsize(0), FALSE, Apart),
                CommandLine(DefaultPattern, DefaultParts, Unparsable, FALSE, Apart)}
              \cup {CommandLine(DefaultPattern, n, NoMax, mv, Apart) :
                        n \in PartsBelowOne, mv \in BOOLEAN}}

\* the archive of the source root already holds files named as the source:
\* left by earlier runs on other files of that name
ArchivedScenarios ==
    LET a == CommandLine(DefaultPattern, 1, NoMax, TRUE, Apart)
        held == {<<archive_path("in"), "a.ts">>, <<archive_path("in"), "a_1.ts">>}
        part == generate_expected_parts("a", ".ts", a.target, 1, a.pattern)[1]
    IN {[args |-> a,
         fs |-> (<<"in", "a.ts">> :> File(BigFileMiB))
                 @@ [q \in archived \cup done |-> File(LimitMiB)]] :
           archived \in (SUBSET held) \ {{}}, done \in {{}, {part}}}

Scenarios ==
    FixedScenarios \cup LimitScenarios \cup TwoRootScenarios
        \cup HashlessScenarios \cup DegenerateScenarios \cup ArchivedScenarios

MainIdle ==
    /\ run = 0 /\ dry_run = FALSE /\ pc = "idle" /\ exit_code = NoExit
    /\ candidates = <<>> /\ ci = 0 /\ lists = NoLists /\ ji = 0 /\ job = NoJob
    /\ skiplog = <<>> /\ details = <<>> /\ invocations = <<>>
    /\ jobs_done = <<>> /\ faults = 0 /\ history = <<>> /\ warned = FALSE

\* the other specifications leave the runs of main() unused
NoMain ==
    /\ args = [pattern |-> "", parts |-> 0, max |-> NoMax,
               moveprocessed |-> FALSE, roots |-> <<>>, target |-> ""]
    /\ fs = <<>> /\ dirs = {} /\ fs_start = <<>> /\ reversed = FALSE
    /\ MainIdle

\* one order of a set, and the orders os.listdir may return its entries in:
\* that one and its reverse, the same choice through a behaviour
RECURSIVE SeqOf(_)
SeqOf(S) == IF S = {} THEN <<>>
            ELSE LET x == CHOOSE y \in S : TRUE IN <<x>> \o SeqOf(S \ {x})

Reverse(seq) == [i \in 1..Len(seq) |-> seq[Len(seq) + 1 - i]]

listdir_order(S) == IF reversed THEN Reverse(SeqOf(S)) ELSE SeqOf(S)

\* expand_source_paths: the roots that are directories, each once
expand_source_paths(a, d) == SelectSeq(a.roots, LAMBDA r : r \in d)

\* the candidates of one source root (lines 383-396): the regular files with
\* a video extension; no --keyword and no --dateafter are given
CandidatesIn(f, source_path) ==
    {<<<<source_path, entry>>, source_path>> :
        entry \in {e \in listdir(f, source_path) :
                      splitext(e)[2] \in video_extensions}}

\* the candidate lists the scan may build: root after root
ScanOrders(f, source_paths) ==
    IF Len(source_paths) = 1 THEN {listdir_order(CandidatesIn(f, source_paths[1]))}
    ELSE {listdir_order(CandidatesIn(f, source_paths[1]))
              \o listdir_order(CandidatesIn(f, source_paths[2]))}

StartOn(scenarios) ==
    /\ \E sc \in scenarios : args = sc.args /\ fs = sc.fs
    /\ dirs = {args.roots[i] : i \in 1..Len(args.roots)} \cup {q[1] : q \in DOMAIN fs}
    /\ fs_start = fs
    \* the order matters where a directory holds two candidates
    /\ reversed \in IF \E r \in SourceDirs : Cardinality(CandidatesIn(fs, r)) > 1
                    THEN BOOLEAN ELSE {FALSE}
    /\ MainIdle
    /\ IdleNaming /\ IdlePlan /\ IdleRanges

Init == StartOn(Scenarios)

Exit(code, at) == pc' = "exited" /\ exit_code' = [code |-> code, at |-> at]

\* what history keeps of a finished run
RunRecord ==
    [dry_run |-> dry_run, fs_start |-> fs_start, fs_end |-> fs,
     candidates |-> candidates, lists |-> lists, jobs_done |-> jobs_done,
     exit_code |-> exit_code, invocations |-> Len(invocations)]

\* a start that prints no warning
never_warns(pattern) == FALSE

\* lines 341-342: the pattern has no '#'
warns(pattern) == ~Contains(pattern, "#")

\* main() from its start to the end of the scan (lines 336-406)
StartRun(dry) ==
    /\ pc \in {"idle", "exited"}
    /\ run < MaxRuns
    /\ run' = run + 1
    /\ dry_run' = dry
    /\ history' = IF pc = "idle" THEN history ELSE Append(history, RunRecord)
    /\ fs_start' = fs
    /\ warned' = warns(args.pattern)
    /\ ci' = 1 /\ ji' = 1 /\ lists' = NoLists /\ job' = NoJob /\ jobs_done' = <<>>
    /\ LET source_paths == expand_source_paths(args, dirs)
       IN IF source_paths = <<>>
          THEN Exit(1, "sources") /\ candidates' = <<>> /\ UNCHANGED dirs
          ELSE /\ dirs' = dirs \cup {args.target}
               /\ IF args.max.given /\ ~args.max.valid
                  THEN Exit(1, "maxtargetsize") /\ candidates' = <<>>
                  ELSE \E scan \in ScanOrders(fs, source_paths) :
                          /\ candidates' = scan
                          /\ IF scan = <<>> THEN Exit(0, "candidates")
                             ELSE pc' = "classify" /\ exit_code' = NoExit
    /\ UNCHANGED <<args, fs, skiplog, details, invocations, faults,
                   reversed, namingVars, planVars, rangeVars>>

\* the failures a call to move_processed_source may meet
MoveOutcomes(moves) ==
    IF moves /\ faults < MaxFaults THEN {"ok", "makedirs", "move"} ELSE {"ok"}

\* lines 419-421: the candidate is auto-moved
AutoMove(video_file, outcome, auto) ==
    /\ fs' = auto.after.fs
    /\ dirs' = auto.after.dirs
    /\ skiplog' = auto.after.log
    /\ faults' = IF outcome = "ok" THEN faults ELSE faults + 1
    /\ lists' = [lists EXCEPT !.to_auto_move = Append(@, video_file)]

\* a resolver whose answer depends on the runs made before
PlanSplitByRun(video_file, source_dir, n_parts, existing) ==
    lists' = [lists EXCEPT !.to_split = Append(@,
                 [video_file |-> video_file, source_dir |-> source_dir,
                  n_parts |-> n_parts,
                  status |-> IF run > 1 THEN "resume" ELSE "new"])]

\* lines 430-440: the candidate's parts are all there, or it is to be split
PlanSplit(video_file, source_dir, n_parts, existing) ==
    IF Len(existing) = n_parts
    THEN lists' = [lists EXCEPT !.to_skip_complete = Append(@, video_file)]
    ELSE lists' = [lists EXCEPT !.to_split = Append(@,
                      [video_file |-> video_file, source_dir |-> source_dir,
                       n_parts |-> n_parts,
                       status |-> IF existing # <<>> THEN "resume" ELSE "new"])]

ExpectedOf(video_file, n_parts) ==
    generate_expected_parts(splitext(basename(video_file))[1],
                            splitext(basename(video_file))[2],
                            args.target, n_parts, args.pattern)

\* a resolver that splits a file of exactly the limit
SizeAndPlanBelow(video_file, source_dir, size_bytes, n_parts) ==
    IF args.max.on /\ size_bytes < args.max.mib
    THEN lists' = [lists EXCEPT !.to_skip_small = Append(@, video_file)]
    ELSE PlanSplit(video_file, source_dir, n_parts,
                   get_existing_parts(ExpectedOf(video_file, n_parts), DOMAIN fs))

\* lines 423-440: too small, or planned with a part count
SizeAndPlan(video_file, source_dir, size_bytes, n_parts) ==
    IF args.max.on /\ size_bytes <= args.max.mib
    THEN lists' = [lists EXCEPT !.to_skip_small = Append(@, video_file)]
    ELSE PlanSplit(video_file, source_dir, n_parts,
                   get_existing_parts(ExpectedOf(video_file, n_parts), DOMAIN fs))

\* a resolver without the auto-move test
WithoutAutoMoveTest(video_file, source_dir, outcome, auto) ==
    /\ outcome = "ok"
    /\ UNCHANGED <<fs, dirs, skiplog, faults>>
    /\ SizeAndPlan(video_file, source_dir,
                   get_file_size_bytes(fs, video_file),
                   n_parts_of(args, get_file_size_bytes(fs, video_file)))

\* lines 419-440, given what check_and_move_original_if_parts_complete did
AfterAutoMoveTest(video_file, source_dir, outcome, auto) ==
    IF auto.found
    THEN AutoMove(video_file, outcome, auto)
    ELSE /\ outcome = "ok"
         /\ UNCHANGED <<fs, dirs, skiplog, faults>>
         /\ SizeAndPlan(video_file, source_dir,
                        get_file_size_bytes(fs, video_file),
                        n_parts_of(args, get_file_size_bytes(fs, video_file)))

\* one pass of the classification loop (lines 408-440)
ClassifyCandidate(video_file, source_dir) ==
    IF ~duration_ok(fs, video_file)
    THEN /\ Exit(1, "ffprobe")
         /\ UNCHANGED <<fs, dirs, skiplog, lists, ci, faults>>
    ELSE /\ ci' = ci + 1
         /\ UNCHANGED <<pc, exit_code>>
         /\ IF is_already_a_part(basename(video_file), args.pattern)
            THEN /\ lists' = [lists EXCEPT !.to_skip_part = Append(@, video_file)]
                 /\ UNCHANGED <<fs, dirs, skiplog, faults>>
            ELSE \E outcome \in MoveOutcomes(args.moveprocessed /\ ~dry_run) :
                    AfterAutoMoveTest(video_file, source_dir, outcome,
                        check_and_move_original_if_parts_complete(
                            fs, dirs, skiplog, video_file, args.target,
                            args.pattern, source_dir,
                            args.moveprocessed /\ ~dry_run, outcome))

Classify ==
    /\ pc = "classify"
    /\ ci <= Len(candidates)
    /\ ClassifyCandidate(candidates[ci][1], candidates[ci][2])
    /\ UNCHANGED <<args, warned, run, dry_run, candidates, ji, job, details, invocations,
                   jobs_done, fs_start, history, reversed, namingVars, planVars, rangeVars>>

\* the preview and the summary, and the end of a dry run (lines 442-482)
Preview ==
    /\ pc = "classify"
    /\ ci > Len(candidates)
    /\ IF dry_run THEN Exit(0, "dry-run") ELSE pc' = "execute" /\ UNCHANGED exit_code
    /\ UNCHANGED <<args, warned, fs, dirs, run, dry_run, candidates, ci, lists, ji, job,
                   skiplog, details, invocations, jobs_done, faults, fs_start,
                   history, reversed, namingVars, planVars, rangeVars>>

\* a split that runs ffmpeg for every part, present or not
every_index(expected_parts, disk) == [i \in 1..Len(expected_parts) |-> i]

\* line 235: the parts ffmpeg is still to write, counted from 1
missing_indices(expected_parts, disk) ==
    SelectSeq([i \in 1..Len(expected_parts) |-> i],
              LAMBDA i : expected_parts[i] \notin disk)

JobResult(j, status, result_parts) ==
    [input_file |-> j.input_file, n_parts |-> j.n_parts, status |-> status,
     expected_parts |-> j.expected_parts, existing_parts |-> j.existing_parts,
     missing_indices |-> j.missing_indices, result_parts |-> result_parts]

\* one pass of the execution loop up to the first ffmpeg command: the test
\* of lines 489-495 and split_with_ffmpeg down to line 250
JobStart ==
    /\ pc = "execute"
    /\ ji <= Len(lists.to_split)
    /\ LET todo == lists.to_split[ji]
           input_file == todo.video_file
           se == splitext(basename(input_file))
           expected_parts == generate_expected_parts(se[1], se[2], args.target,
                                                     todo.n_parts, args.pattern)
           existing_parts == get_existing_parts(expected_parts, DOMAIN fs)
           missing == missing_indices(expected_parts, DOMAIN fs)
           j == [input_file |-> input_file, source_dir |-> todo.source_dir,
                 n_parts |-> todo.n_parts, expected_parts |-> expected_parts,
                 existing_parts |-> existing_parts,
                 missing_indices |-> missing, next |-> 1,
                 status |-> IF Len(existing_parts) > 0 THEN "resume" ELSE "new",
                 kept |-> [q \in {existing_parts[i] : i \in 1..Len(existing_parts)}
                              |-> fs[q]]]
           return(status, result_parts) ==
               /\ jobs_done' = Append(jobs_done, JobResult(j, status, result_parts))
               /\ ji' = ji + 1
               /\ UNCHANGED <<pc, exit_code, job>>
       IN IF Len(existing_parts) = todo.n_parts
          THEN /\ skiplog' = log_action(skiplog, input_file, "SKIPPED",
                                        "all parts exist")
               /\ return("skipped", <<>>)
          ELSE IF is_already_a_part(basename(input_file), args.pattern)
          THEN /\ skiplog' = log_action(skiplog, input_file, "SKIPPED",
                                        "filename matches part pattern")
               /\ return("already_part", <<>>)
          ELSE IF missing = <<>>
          THEN /\ return("already_complete", existing_parts)
               /\ UNCHANGED skiplog
          ELSE IF ~duration_ok(fs, input_file)
          THEN /\ Exit(1, "ffprobe")
               /\ UNCHANGED <<skiplog, jobs_done, ji, job>>
          ELSE /\ job' = j
               /\ pc' = "split"
               /\ UNCHANGED <<skiplog, jobs_done, ji, exit_code>>
    /\ UNCHANGED <<args, warned, fs, dirs, run, dry_run, candidates, ci, lists, details,
                   invocations, faults, fs_start, history, reversed, namingVars, planVars, rangeVars>>

\* what one ffmpeg command may do: write its file and exit 0 ("ok": a file
\* ffprobe reads; "unreadable": one it does not), exit 0 without a file
\* ("nofile"), or exit nonzero, without a file ("fail") or leaving a
\* truncated one ("partial"); or the run is interrupted while the command
\* writes its file ("interrupted": no handler is installed, subprocess.run
\* kills the command and KeyboardInterrupt ends the process)
AllRemuxOutcomes ==
    {"ok", "unreadable", "nofile", "fail", "partial", "interrupted"}

RemuxOutcomes(input_file) ==
    IF input_file \notin DOMAIN fs THEN {"fail"}
    ELSE IF faults < MaxFaults THEN AllRemuxOutcomes
    ELSE {"ok"}

\* the status of a process ended by KeyboardInterrupt
InterruptStatus == 130

\* a command whose failure takes its output file away
removed_on_failure(f, out_file, size, outcome) ==
    CASE outcome = "ok" -> Put(f, out_file, [size |-> size, ok |-> TRUE])
      [] out_file \in DOMAIN f -> Remove(f, out_file)
      [] OTHER -> f

\* the filesystem after one ffmpeg command (line 262)
written_by(f, out_file, size, outcome) ==
    CASE outcome = "ok" -> Put(f, out_file, [size |-> size, ok |-> TRUE])
      [] outcome = "unreadable" -> Put(f, out_file, [size |-> size, ok |-> FALSE])
      [] outcome \in {"partial", "interrupted"} ->
             Put(f, out_file, [size |-> 0, ok |-> TRUE])
      [] OTHER -> f

\* a loop that goes on after a failed command
never_raises(outcome) == FALSE

\* lines 264-266: subprocess.run raises CalledProcessError and main exits
raises(outcome) == outcome \in {"fail", "partial"}

\* one pass of the loop over missing_indices (lines 252-266)
Remux(outcome) ==
    /\ pc = "split"
    /\ job.next <= Len(job.missing_indices)
    /\ outcome \in RemuxOutcomes(job.input_file)
    /\ LET i == job.missing_indices[job.next]
           out_file == job.expected_parts[i]
           size == part_size(get_file_size_bytes(fs, job.input_file), job.n_parts)
       IN /\ invocations' = Append(invocations,
                 [run |-> run, input_file |-> job.input_file, part |-> i,
                  n_parts |-> job.n_parts, out_file |-> out_file,
                  \* -t is given to every part but the last
                  limited |-> i < job.n_parts, outcome |-> outcome])
          /\ fs' = written_by(fs, out_file, size, outcome)
    /\ faults' = IF outcome = "ok" \/ job.input_file \notin DOMAIN fs
                 THEN faults ELSE faults + 1
    /\ IF raises(outcome)
       THEN Exit(1, "ffmpeg") /\ UNCHANGED job
       ELSE IF outcome = "interrupted"
       THEN Exit(InterruptStatus, "interrupt") /\ UNCHANGED job
       ELSE job' = [job EXCEPT !.next = @ + 1] /\ UNCHANGED <<pc, exit_code>>
    /\ UNCHANGED <<args, warned, dirs, run, dry_run, candidates, ci, lists, ji, skiplog,
                   details, jobs_done, fs_start, history, reversed, namingVars, planVars, rangeVars>>

\* a split that takes every part it ran ffmpeg for as written
attempted_parts(j, disk) == j.expected_parts

\* line 268: the expected parts found when the filesystem is read again
final_parts(j, disk) == get_existing_parts(j.expected_parts, disk)

\* the end of split_with_ffmpeg (lines 268-276) and of the pass of the
\* execution loop that called it (lines 501-504)
JobEnd ==
    /\ pc = "split"
    /\ job.next > Len(job.missing_indices)
    /\ LET final == final_parts(job, DOMAIN fs)
           written == log_detailed_completion(fs, job.input_file, final,
                                              job.n_parts)
       IN IF Len(final) # job.n_parts
          THEN /\ jobs_done' = Append(jobs_done,
                                      JobResult(job, "incomplete", final))
               /\ pc' = "execute" /\ ji' = ji + 1 /\ job' = NoJob
               /\ UNCHANGED <<fs, dirs, skiplog, details, faults, exit_code>>
          ELSE /\ details' = Append(details, written)
               /\ IF ~written.closed
                  THEN /\ Exit(1, "ffprobe")
                       /\ UNCHANGED <<fs, dirs, skiplog, faults, jobs_done, ji, job>>
                  ELSE \E outcome \in MoveOutcomes(args.moveprocessed) :
                       LET after == IF args.moveprocessed
                                    THEN move_processed_source(fs, dirs, skiplog,
                                             job.input_file, job.source_dir, outcome)
                                    ELSE [fs |-> fs, dirs |-> dirs, log |-> skiplog]
                       IN /\ fs' = after.fs
                          /\ dirs' = after.dirs
                          /\ skiplog' = after.log
                          /\ faults' = IF outcome = "ok" THEN faults ELSE faults + 1
                          /\ jobs_done' = Append(jobs_done,
                                 JobResult(job, job.status, final))
                          /\ pc' = "execute" /\ ji' = ji + 1 /\ job' = NoJob
                          /\ UNCHANGED exit_code
    /\ UNCHANGED <<args, warned, run, dry_run, candidates, ci, lists, invocations,
                   fs_start, history, reversed, namingVars, planVars, rangeVars>>

\* the summary after the last job (lines 506-517)
Finish ==
    /\ pc = "execute"
    /\ ji > Len(lists.to_split)
    /\ Exit(0, "finished")
    /\ UNCHANGED <<args, warned, fs, dirs, run, dry_run, candidates, ci, lists, ji, job,
                   skiplog, details, invocations, jobs_done, faults, fs_start,
                   history, reversed, namingVars, planVars, rangeVars>>

Next ==
    \/ \E dry \in BOOLEAN : StartRun(dry)
    \/ Classify
    \/ Preview
    \/ JobStart
    \/ \E outcome \in AllRemuxOutcomes : Remux(outcome)
    \/ JobEnd
    \/ Finish

Spec == Init /\ [][Next]_vars

\* the runs of main() on the large source of KnifeEdge
KnifeEdgeInit == StartOn(KnifeEdgeScenarios)

SpecKnifeEdge == KnifeEdgeInit /\ [][Next]_vars

(***************************************************************************)
(* SpecNaming: format_part_filename, then the recognisers on its result.   *)
(***************************************************************************)
Bases == {"a1", "b.c"}
Exts == {".ts"}
CodecInputs ==
    /\ nBase \in Bases
    /\ nExt \in Exts
    /\ nPattern \in Patterns
    /\ nTotal \in 1..MaxTotal
    /\ nIndex = 0 /\ nName = "" /\ nDisk = {} /\ nRec = NoRec

NamingInit == CodecInputs /\ IdlePlan /\ IdleRanges /\ NoMain

Generate(i) ==
    /\ nIndex' = i
    /\ nName' = format_part_filename(nBase, nExt, i, nTotal, nPattern)
    /\ nRec' = NoRec
    /\ UNCHANGED <<nBase, nExt, nPattern, nTotal, nDisk, planVars, rangeVars, mainVars>>

Recognise ==
    /\ nIndex > 0
    /\ ~nRec.done
    /\ nRec' = [done |-> TRUE,
                part |-> is_already_a_part(nName, nPattern),
                m |-> first_match(nName, nPattern)]
    /\ UNCHANGED <<nBase, nExt, nPattern, nTotal, nIndex, nName, nDisk, planVars, rangeVars, mainVars>>

NamingNext == (\E i \in 1..nTotal : Generate(i)) \/ Recognise

SpecNaming == NamingInit /\ [][NamingNext]_vars

(***************************************************************************)
(* SpecParts: the expected parts of one job and the ones on disk.          *)
(***************************************************************************)
PartsInit == CodecInputs /\ IdlePlan /\ IdleRanges /\ NoMain

\* a file appears at the path of part i
CreatePart(i) ==
    /\ Cardinality(nDisk) < MaxDisk
    /\ nIndex' = i
    /\ nName' = format_part_filename(nBase, nExt, i, nTotal, nPattern)
    /\ nDisk' = nDisk \cup {<<CodecDir, nName'>>}
    /\ UNCHANGED <<nBase, nExt, nPattern, nTotal, nRec, planVars, rangeVars, mainVars>>

PartsNext == \E i \in 1..nTotal : CreatePart(i)

SpecParts == PartsInit /\ [][PartsNext]_vars

(***************************************************************************)
(* SpecPlan: calculate_parts_from_target_size on a size and a limit.       *)
(***************************************************************************)
PlanInit ==
    /\ pSize \in 1..MaxSizeMiB
    /\ pMax \in 1..MaxLimitMiB
    /\ pParts = 0
    /\ IdleNaming /\ IdleRanges /\ NoMain

Plan ==
    /\ pParts = 0
    /\ pParts' = calculate_parts_from_target_size(pSize, pMax)
    /\ UNCHANGED <<pSize, pMax, namingVars, rangeVars, mainVars>>

PlanNext == Plan

SpecPlan == PlanInit /\ [][PlanNext]_vars

(***************************************************************************)
(* SpecRanges: the command lines split_with_ffmpeg builds for one job.     *)
(***************************************************************************)
\* the indices of the expected parts that are not on disk, in order
missing_from(n_parts, existing) ==
    SelectSeq([k \in 1..n_parts |-> k - 1], LAMBDA i : i \notin existing)

\* total_duration / n_parts
part_duration_of(total_duration, n_parts) ==
    FloatDiv(FloatOfInt(total_duration), FloatOfInt(n_parts))

\* part_duration * i
start_time_of(part_duration, i) == FloatMul(part_duration, FloatOfInt(i))

\* the -ss and -t arguments of the command for part i (0-indexed); t is <<>>
\* when the command has no -t
ffmpeg_cmd(i, n_parts, part_duration) ==
    [part |-> i,
     ss |-> start_time_of(part_duration, i),
     t |-> IF i < n_parts - 1 THEN <<part_duration>> ELSE <<>>]

\* a new job, or a resume with one part on disk
RangesInit ==
    /\ tDuration \in 1..MaxDuration
    /\ tParts \in 1..MaxTotal
    /\ tMissing \in {missing_from(tParts, existing) :
                        existing \in {{}} \cup {{j} : j \in 0..(tParts - 1)}}
    /\ tCmds = <<>>
    /\ IdleNaming /\ IdlePlan /\ NoMain

\* one turn of the loop over missing_indices
Cut ==
    /\ Len(tCmds) < Len(tMissing)
    /\ LET i == tMissing[Len(tCmds) + 1]
       IN tCmds' = Append(tCmds,
                          ffmpeg_cmd(i, tParts, part_duration_of(tDuration, tParts)))
    /\ UNCHANGED <<tDuration, tParts, tMissing, namingVars, planVars, mainVars>>

RangesNext == Cut

SpecRanges == RangesInit /\ [][RangesNext]_vars

(***************************************************************************)
(* Properties of the naming codec and of the planner.                      *)
(***************************************************************************)
\* the lengths of the runs of '#' in a pattern, from left to right
RECURSIVE HashRuns(_, _)
HashRuns(s, run_len) ==
    IF s = ""
    THEN IF run_len > 0 THEN <<run_len>> ELSE <<>>
    ELSE IF SubSeq(s, 1, 1) = "#"
    THEN HashRuns(SubSeq(s, 2, Len(s)), run_len + 1)
    ELSE (IF run_len > 0 THEN <<run_len>> ELSE <<>>)
             \o HashRuns(SubSeq(s, 2, Len(s)), 0)

\* one single and one double placeholder, apart from each other
OneSingleOneDouble(pattern) ==
    HashRuns(pattern, 0) \in {<<1, 2>>, <<2, 1>>}

\* C4 (as the specification states it): for a pattern with one single and one
\* double placeholder and every 1 <= index <= total, the name
\* format_part_filename produces is recognised as a part, and the first match
\* of the search gives back the base name, the total and the index.
C4_RoundTrip ==
    (nRec.done /\ OneSingleOneDouble(nPattern))
        => /\ nRec.part
           /\ nRec.m.ok
           /\ nRec.m.base = nBase
           /\ nRec.m.total = nTotal
           /\ nRec.m.part = nIndex

\* C5 (as the specification states it): for size > max the planner returns
\* ceil(size / (0.98 * max)), the least n with n * 0.98 * max >= size, and
\* at least 2.
C5_SizeBoundPlan ==
    (pParts # 0 /\ pSize > pMax)
        => /\ pParts >= 2
           /\ pParts * 98 * pMax >= 100 * pSize
           /\ (pParts - 1) * 98 * pMax < 100 * pSize

\* the expected parts of the job of SpecParts
PartsOfJob == generate_expected_parts(nBase, nExt, CodecDir, nTotal, nPattern)

Injective(seq) ==
    \A i, j \in 1..Len(seq) : i # j => seq[i] # seq[j]

\* the expected paths on disk are as many as the part files on disk
CountsPartFiles(seq, disk) ==
    Len(get_existing_parts(seq, disk))
        = Cardinality(disk \cap {seq[i] : i \in 1..Len(seq)})

\* a single placeholder is left for the part number once the double ones
\* are taken by the total
KeepsPartNumber(pattern) == Contains(Replace(pattern, "##", ""), "#")

\* C8 (as the specification states it): for every pattern the program
\* accepts, the expected parts of a job are pairwise distinct paths, and the
\* expected paths on disk count the job's part files.
C8_InjectiveAnyPattern ==
    Injective(PartsOfJob) /\ CountsPartFiles(PartsOfJob, nDisk)

\* C8: for every pattern that keeps a single placeholder for the part number,
\* generate_expected_parts maps 1..totalParts to pairwise distinct paths, and
\* the expected paths that exist are as many as the job's part files on disk.
C8_InjectiveNaming ==
    KeepsPartNumber(nPattern)
        => Injective(PartsOfJob) /\ CountsPartFiles(PartsOfJob, nDisk)

\* two parts of a job with a part-numbered pattern are on disk
C8_Witness ==
    /\ KeepsPartNumber(nPattern)
    /\ nTotal >= 2
    /\ Cardinality(nDisk) = 2
    /\ Len(get_existing_parts(PartsOfJob, nDisk)) = 2

(***************************************************************************)
(* Properties of the runs of main().                                       *)
(***************************************************************************)
Range(seq) == {seq[i] : i \in 1..Len(seq)}

\* the ffmpeg commands the present run has made for one input file
CommandsFor(input_file) ==
    SelectSeq(invocations,
              LAMBDA c : c.run = run /\ c.input_file = input_file)

\* the ffmpeg commands of the present run
CommandsOfRun == SelectSeq(invocations, LAMBDA c : c.run = run)

\* some, not all, of a job's expected parts were there when it started
PartlyPresent(j) ==
    /\ Range(j.existing_parts) # {}
    /\ Range(j.existing_parts) # Range(j.expected_parts)

\* the expected parts of a job that were missing when it started
MissingParts(j) == Range(j.expected_parts) \ Range(j.existing_parts)

\* every command of the sequence ended with status 0 and left its file
AllProduced(commands) ==
    \A k \in 1..Len(commands) : commands[k].outcome \in {"ok", "unreadable"}

OncePerPart(commands) ==
    \A k1, k2 \in 1..Len(commands) :
        k1 # k2 => commands[k1].out_file # commands[k2].out_file

\* C1 while the job runs: no command is for a present part and none is
\* repeated, the present parts stay as they were, and once every missing
\* part has had its command, and each left its file, all n parts exist
ResumeRunning(j) ==
    /\ \A k \in 1..Len(CommandsFor(j.input_file)) :
          CommandsFor(j.input_file)[k].out_file \in MissingParts(j)
    /\ OncePerPart(CommandsFor(j.input_file))
    /\ \A q \in DOMAIN j.kept : q \in DOMAIN fs /\ fs[q] = j.kept[q]
    /\ (/\ j.next > Len(j.missing_indices)
        /\ AllProduced(CommandsFor(j.input_file)))
           => /\ {c.out_file : c \in Range(CommandsFor(j.input_file))}
                     = MissingParts(j)
              /\ Range(j.expected_parts) \subseteq DOMAIN fs

\* C1 once the job has returned: one command per missing part, none for a
\* present one, and the job complete when each command left its file
ResumeDone(d) ==
    /\ {c.out_file : c \in Range(CommandsFor(d.input_file))} = MissingParts(d)
    /\ OncePerPart(CommandsFor(d.input_file))
    /\ AllProduced(CommandsFor(d.input_file))
           => /\ d.status = "resume"
              /\ Range(d.result_parts) = Range(d.expected_parts)

\* C1: Resume.  For a job that finds a non-empty proper subset of its
\* expected parts on disk, ffmpeg is run exactly once for each missing part
\* and never for a present one, the present parts are neither rewritten nor
\* deleted, and when every command succeeds and leaves its file all n
\* expected paths exist at the end of the job.
C1_Resume ==
    /\ (job # NoJob /\ PartlyPresent(job)) => ResumeRunning(job)
    /\ \A k \in 1..Len(jobs_done) :
          PartlyPresent(jobs_done[k]) => ResumeDone(jobs_done[k])

\* a resumed job has returned, complete, after a command for a missing part
C1_Witness ==
    \E k \in 1..Len(jobs_done) :
        /\ PartlyPresent(jobs_done[k])
        /\ jobs_done[k].status = "resume"
        /\ Len(CommandsFor(jobs_done[k].input_file)) >= 1
        /\ Range(jobs_done[k].expected_parts) \subseteq DOMAIN fs
        /\ Range(jobs_done[k].existing_parts) \subseteq DOMAIN fs_start

\* the class the lists of a run give a candidate, and the part count of a
\* candidate to be split
ClassOf(l, c) ==
    IF c \in Range(l.to_skip_part) THEN <<"already-a-part", 0>>
    ELSE IF c \in Range(l.to_auto_move) THEN <<"auto-moved", 0>>
    ELSE IF c \in Range(l.to_skip_small) THEN <<"too-small", 0>>
    ELSE IF c \in Range(l.to_skip_complete) THEN <<"already-complete", 0>>
    ELSE IF \E e \in Range(l.to_split) : e.video_file = c
    THEN LET e == CHOOSE x \in Range(l.to_split) : x.video_file = c
         IN <<"split-" \o e.status, e.n_parts>>
    ELSE <<"none", 0>>

\* the classification loop has passed every candidate
AllClassified(l, cands) ==
    Len(l.to_skip_part) + Len(l.to_auto_move) + Len(l.to_skip_small)
        + Len(l.to_skip_complete) + Len(l.to_split) = Len(cands)

\* the present run and the earlier run h have both classified every
\* candidate, and the filesystem is the one h started on
SameFilesystemTwice(h) ==
    /\ h.fs_start = fs /\ h.fs_end = fs /\ fs_start = fs
    /\ pc # "classify"
    /\ h.candidates # <<>>
    /\ AllClassified(h.lists, h.candidates)
    /\ AllClassified(lists, candidates)

FinishedComplete(h) ==
    /\ ~h.dry_run
    /\ h.exit_code.at = "finished"
    /\ h.jobs_done # <<>>
    /\ \A k \in 1..Len(h.jobs_done) : h.jobs_done[k].status # "incomplete"

\* C3 (as the specification states it): the run that follows a real run in
\* which every job finished complete runs ffmpeg not once and creates no
\* file in the target directory, whatever the part count, and also when the
\* source root is the target directory.
C3_NoRedo ==
    (/\ run >= 2
     /\ Len(history) = run - 1
     /\ FinishedComplete(history[run - 1])
     /\ history[run - 1].fs_end = fs_start)
        => /\ CommandsOfRun = <<>>
           /\ {q \in DOMAIN fs : q[1] = args.target} \subseteq DOMAIN fs_start

\* the candidates the classification loop of the present run has passed
Classified == {candidates[k] : k \in 1..(ci - 1)}

\* a candidate no larger than the limit, by its size when the run scanned it
WithinLimit(c) ==
    args.max.on /\ get_file_size_bytes(fs_start, c[1]) <= args.max.mib

\* the candidate is not to be split, and ffmpeg is not run for it
NeverSplit(c) ==
    /\ \A e \in Range(lists.to_split) : e.video_file # c[1]
    /\ CommandsFor(c[1]) = <<>>

TimesListed(c) ==
    Cardinality({k \in 1..Len(lists.to_skip_part) : lists.to_skip_part[k] = c})
    + Cardinality({k \in 1..Len(lists.to_auto_move) : lists.to_auto_move[k] = c})
    + Cardinality({k \in 1..Len(lists.to_skip_small) : lists.to_skip_small[k] = c})
    + Cardinality({k \in 1..Len(lists.to_skip_complete) :
                      lists.to_skip_complete[k] = c})
    + Cardinality({k \in 1..Len(lists.to_split) : lists.to_split[k].video_file = c})

\* Complete, Resume or New by the expected parts on disk
ByParts(existing, n_parts) ==
    IF Len(existing) = n_parts THEN <<"already-complete", 0>>
    ELSE IF Len(existing) > 0 THEN <<"split-resume", n_parts>>
    ELSE <<"split-new", n_parts>>

\* the last three classes of the order, for a candidate of a given size
ByPartsOf(video_file, size_bytes) ==
    ByParts(get_existing_parts(
                ExpectedOf(video_file, n_parts_of(args, size_bytes)), DOMAIN fs),
            n_parts_of(args, size_bytes))

\* the first class, in the order of the specification, that fits a candidate
FiveClasses(c) ==
    IF is_already_a_part(basename(c[1]), args.pattern)
    THEN <<"already-a-part", 0>>
    ELSE IF WithinLimit(c) THEN <<"too-small", 0>>
    ELSE ByPartsOf(c[1], get_file_size_bytes(fs, c[1]))

\* the same with the auto-move test in the second place
SixClasses(c) ==
    IF is_already_a_part(basename(c[1]), args.pattern)
    THEN <<"already-a-part", 0>>
    ELSE IF check_and_move_original_if_parts_complete(
                fs, dirs, skiplog, c[1], args.target, args.pattern, c[2],
                FALSE, "ok").found
    THEN <<"auto-moved", 0>>
    ELSE IF WithinLimit(c) THEN <<"too-small", 0>>
    ELSE ByPartsOf(c[1], get_file_size_bytes(fs, c[1]))

\* the classification loop has just passed a candidate, and the run has
\* left the filesystem as it found it
JustClassified == pc = "classify" /\ ci > 1 /\ fs = fs_start

PartsOfEntry(e) == Range(ExpectedOf(e.video_file, e.n_parts))

\* C9 (as the specification states it): two candidates of the split list of
\* a run have no expected part path in common.
C9_DisjointParts ==
    \A k1, k2 \in 1..Len(lists.to_split) :
        k1 # k2 => PartsOfEntry(lists.to_split[k1])
                      \cap PartsOfEntry(lists.to_split[k2]) = {}

\* ffmpeg has ended with a nonzero status in the present run
ExtractionFailed ==
    \E k \in 1..Len(CommandsOfRun) :
        CommandsOfRun[k].outcome \in {"fail", "partial"}

\* the action log names the input file of each failed command
FailureLogged ==
    \A k \in 1..Len(CommandsOfRun) :
        CommandsOfRun[k].outcome \in {"fail", "partial"}
            => \E e \in Range(skiplog) :
                  /\ e.path = CommandsOfRun[k].input_file
                  /\ e.action \notin {"MOVED", "SKIPPED"}

\* C10 (as the specification states it): when ffmpeg exits nonzero for a
\* part of a job, the failure is recorded in the action log, and the run
\* ends only after the execution loop has passed every later job of the
\* split list.
C10_FailureIsLocal ==
    (pc = "exited" /\ ExtractionFailed)
        => FailureLogged /\ ji >= Len(lists.to_split)

\* ffprobe does not read the candidate
ProbeFails(c) == ~duration_ok(fs_start, c[1])

\* the run has done with the candidate what its class asks for
Handled(c) ==
    /\ ClassOf(lists, c[1])[1] # "none"
    /\ (~dry_run /\ ClassOf(lists, c[1])[1] \in {"split-new", "split-resume"})
          => \E k \in 1..Len(jobs_done) : jobs_done[k].input_file = c[1]

\* C11 (as the specification states it): when the probe of one candidate
\* fails, only that candidate is skipped; every other candidate of the run
\* is still classified and, if it is to be split, split.
C11_ProbeFailureIsLocal ==
    (pc = "exited" /\ \E c \in Range(candidates) : ProbeFails(c))
        => \A c \in Range(candidates) : ~ProbeFails(c) => Handled(c)

\* the commands of the behaviour that were interrupted
Interrupted == {k \in 1..Len(invocations) : invocations[k].outcome = "interrupted"}

\* C12 (as the specification states it): when the run is interrupted while
\* ffmpeg writes part i, the file at the path of part i is deleted (the model
\* has no mark for an invalid file), so that part i does not pass the
\* existence test of the next run and ffmpeg is run for it again.
C12_NoFalsePart ==
    \A k \in Interrupted :
        /\ (pc = "exited" /\ invocations[k].run = run)
              => get_existing_parts(<<invocations[k].out_file>>, DOMAIN fs) = <<>>
        /\ (invocations[k].run < run /\ job.input_file = invocations[k].input_file)
              => invocations[k].out_file \notin Range(job.existing_parts)

\* split_with_ffmpeg has passed its ffmpeg loop and is about to return
JobReturns == pc = "split" /\ job.next > Len(job.missing_indices)

AllPartsExist(j) == Range(j.expected_parts) \subseteq DOMAIN fs

\* the step treats the job as complete: it appends a completion record,
\* moves the source away, or returns the job as processed
TreatsAsComplete ==
    \/ details' # details
    \/ job.input_file \notin DOMAIN fs'
    \/ /\ jobs_done' # jobs_done
       /\ jobs_done'[Len(jobs_done')].status # "incomplete"

\* the step ends the job as incomplete, without record and without move
EndsIncomplete ==
    /\ Len(jobs_done') = Len(jobs_done) + 1
    /\ jobs_done'[Len(jobs_done')].status = "incomplete"
    /\ details' = details
    /\ fs' = fs /\ skiplog' = skiplog

\* the step moves a file away from its path
Relocates == \E q \in DOMAIN fs : q \notin DOMAIN fs'

\* C13: Completion is decided from the filesystem.  A returning job is
\* treated as complete (record appended, source moved, returned as
\* processed) only if every expected part exists when the filesystem is read
\* after the last ffmpeg command; if a part is missing then, as after a
\* command that exits 0 without leaving its file, the job ends "incomplete"
\* with no record and no move.  No step moves a file unless --moveprocessed
\* is given and the run is not a dry run.
C13_CompletionFromDisk ==
    [][/\ (JobReturns /\ TreatsAsComplete) => AllPartsExist(job)
       /\ (JobReturns /\ ~AllPartsExist(job)) => EndsIncomplete
       /\ Relocates => args.moveprocessed /\ ~dry_run]_vars

\* with --moveprocessed, a job has ended incomplete after a command that
\* left no file: no record is written and the source is where it was
C13_Witness ==
    /\ args.moveprocessed
    /\ details = <<>>
    /\ \E k \in 1..Len(jobs_done) :
          /\ jobs_done[k].status = "incomplete"
          /\ jobs_done[k].input_file \in DOMAIN fs
          /\ \E c \in Range(CommandsFor(jobs_done[k].input_file)) :
                c.outcome = "nofile" /\ c.out_file \notin DOMAIN fs

\* C14 (as the specification states it): no step of a dry run, its start
\* included, changes the files, the directories, the action log, the
\* completion log or the ffmpeg commands made.
C14_DryRunNoEffect ==
    [][dry_run' => /\ fs' = fs
                   /\ dirs' = dirs
                   /\ skiplog' = skiplog
                   /\ details' = details
                   /\ invocations' = invocations]_vars

\* what the present run has done with a candidate: the outcome of its job
\* if the execution loop reached it, its class otherwise
ActionOn(c) ==
    IF \E k \in 1..Len(jobs_done) : jobs_done[k].input_file = c
    THEN LET d == CHOOSE x \in Range(jobs_done) : x.input_file = c
         IN <<"split-" \o d.status, d.n_parts>>
    ELSE ClassOf(lists, c)

\* h is a dry run, and the present run a real one started on the same
\* filesystem that has reached its summary with every command succeeding
PreviewOf(h) ==
    /\ h.dry_run /\ h.exit_code.at = "dry-run"
    /\ ~dry_run /\ pc = "exited" /\ exit_code.at = "finished"
    /\ h.fs_start = fs_start
    /\ \A k \in 1..Len(CommandsOfRun) : CommandsOfRun[k].outcome = "ok"

\* C15 (as the specification states it): the class and part count a dry run
\* reports for a candidate are what a real run started from the same
\* filesystem does with that candidate.
C15_DryRunPredicts ==
    \A k \in 1..Len(history) :
        PreviewOf(history[k])
            => \A c \in Range(history[k].candidates) :
                  ClassOf(history[k].lists, c[1]) = ActionOn(c[1])

\* the parts implied by the base name and the total recognised in a name
SiblingParts(name) ==
    generate_expected_parts(first_match(name, args.pattern).base,
                            splitext(name)[2], args.target,
                            first_match(name, args.pattern).total, args.pattern)

\* the source the recognised parts were made from, beside the candidate
OriginalOf(c) ==
    <<c[2], first_match(basename(c[1]), args.pattern).base
                \o splitext(basename(c[1]))[2]>>

\* the loop has just passed a candidate whose name is recognised as a part
\* and whose sibling parts are all in the target directory
RecognisedWithSiblings ==
    /\ pc = "classify" /\ ci > 1
    /\ is_already_a_part(basename(candidates[ci - 1][1]), args.pattern)
    /\ Range(SiblingParts(basename(candidates[ci - 1][1]))) \subseteq DOMAIN fs

\* C16 (as the specification states it): a candidate whose name is
\* recognised as a generated part, with every sibling part present in the
\* target directory, is reported as AutoMoved, and the original source is
\* moved away when --moveprocessed is given in a real run.
C16_AutoMoved ==
    RecognisedWithSiblings
        => /\ ClassOf(lists, candidates[ci - 1][1])[1] = "auto-moved"
           /\ (args.moveprocessed /\ ~dry_run)
                 => OriginalOf(candidates[ci - 1]) \notin DOMAIN fs

\* the least n with n * 0.98 * max >= size
ExactParts(size, max) == (100 * size + 98 * max - 1) \div (98 * max)

\* a candidate of the run that is larger than the limit given, under the
\* default pattern, with a target that held nothing when the run started
LargeNewSource(c) ==
    /\ args.max.on
    /\ args.pattern = DefaultPattern
    /\ c[1] \in DOMAIN fs_start
    /\ fs_start[c[1]].size > args.max.mib
    /\ ~is_already_a_part(basename(c[1]), args.pattern)
    /\ \A q \in DOMAIN fs_start : q[1] # args.target

\* the completion records of a source
RecordsOf(source_file) == SelectSeq(details, LAMBDA r : r.source = source_file)

SplitAsPlanned(c) ==
    LET total == ExactParts(fs_start[c[1]].size, args.max.mib)
    IN /\ {q \in DOMAIN fs : q[1] = args.target} = Range(ExpectedOf(c[1], total))
       /\ Len(RecordsOf(c[1])) = 1
       /\ RecordsOf(c[1])[1].closed
       /\ Len(RecordsOf(c[1])[1].parts) = total
       /\ args.moveprocessed
              => /\ c[1] \notin DOMAIN fs
                 /\ <<archive_path(c[2]), basename(c[1])>> \in DOMAIN fs

\* C17: End-to-end new split.  After a first run that ended without any
\* failed ffmpeg command or failed move, for a source larger than the limit,
\* the default pattern and a target that was empty, the target holds exactly
\* the ceil(size / (0.98 * max)) parts named for the source, the completion
\* log has exactly one record for it, listing that many parts, and with
\* --moveprocessed the source is in '<sourceDir> source' and no longer in its
\* source directory.
C17_NewSplit ==
    (/\ pc = "exited" /\ exit_code.at = "finished"
     /\ run = 1 /\ faults = 0)
        => \A c \in Range(candidates) : LargeNewSource(c) => SplitAsPlanned(c)

\* the size a candidate had when the run started
SizeAtStart(video_file) == get_file_size_bytes(fs_start, video_file)

\* the part count of an entry of the split list is the planner's for the
\* limit given
PlannedBySize(e) ==
    /\ args.max.mib > 0
    /\ e.n_parts = parts_for_size[<<SizeAtStart(e.video_file), args.max.mib>>]

\* C18: Constraint selection is mutually exclusive.  Without --maxtargetsize
\* every entry of the split list has the part count given on the command
\* line; with --maxtargetsize every entry has the count the planner computes
\* from the file's size and the limit, never the fixed count.
C18_ExclusiveConstraint ==
    \A k \in 1..Len(lists.to_split) :
        /\ ~args.max.given => lists.to_split[k].n_parts = args.parts
        /\ args.max.given => PlannedBySize(lists.to_split[k])

\* the command line has a limit that does not parse
UnparsableLimit == args.max.given /\ ~args.max.valid

\* the command line has no limit and a part count below 1
CountBelowOne == ~args.max.given /\ args.parts < 1

\* the run ended with an error before it classified a file as to be split
\* or complete, ran ffmpeg or moved a source
EndedBeforeExecution ==
    /\ pc = "exited" /\ exit_code.code # 0
    /\ lists.to_split = <<>> /\ lists.to_skip_complete = <<>>
    /\ invocations = <<>>
    /\ \A k \in 1..Len(skiplog) : skiplog[k].action # "MOVED"
    /\ {q \in DOMAIN fs : fs[q].size > 0} = {q \in DOMAIN fs_start : fs_start[q].size > 0}

\* C19: Planning failure is fatal before execution.  A run whose limit does
\* not parse, or whose fixed part count is below 1, ends with a nonzero
\* status before any ffmpeg command, any move of a source and any
\* classification of a file as to be split or complete.
C19_PlanningFailureFatal ==
    (run >= 1 /\ (UnparsableLimit \/ CountBelowOne)) => EndedBeforeExecution

\* a step in which move_processed_source fails: at the end of a job, or in
\* the auto-move of a candidate
MoveFailsAfterJob == pc = "split" /\ JobReturns /\ faults' = faults + 1

MoveFailsInAutoMove == pc = "classify" /\ faults' = faults + 1

\* the step appends one MOVE FAILED entry naming the source
LogsMoveFailed(source_file) ==
    /\ Len(skiplog') = Len(skiplog) + 1
    /\ SubSeq(skiplog', 1, Len(skiplog)) = skiplog
    /\ skiplog'[Len(skiplog')].action = "MOVE FAILED"
    /\ skiplog'[Len(skiplog')].path = source_file

\* every entry of the split list has been through the execution loop
AllJobsExecuted ==
    /\ Len(jobs_done) = Len(lists.to_split)
    /\ \A k \in 1..Len(jobs_done) :
          jobs_done[k].input_file = lists.to_split[k].video_file

MoveFailureIsLocal ==
    /\ MoveFailsAfterJob
           => /\ LogsMoveFailed(job.input_file)
              /\ fs' = fs
              /\ Range(job.expected_parts) \subseteq DOMAIN fs'
              /\ pc' = "execute" /\ ji' = ji + 1 /\ exit_code' = exit_code
              /\ Len(jobs_done') = ji
    /\ MoveFailsInAutoMove
           => /\ LogsMoveFailed(candidates[ci][1])
              /\ fs' = fs
              /\ pc' = "classify" /\ ci' = ci + 1 /\ exit_code' = exit_code
    /\ (pc = "execute" /\ exit_code'.at = "finished") => AllJobsExecuted

\* C20: Filesystem failure is local.  When the move of a processed source
\* fails, in makedirs or in the move itself, one MOVE FAILED entry naming
\* the source is appended to the action log, the source and the job's parts
\* stay where they are, and the run goes on with the next entry of the split
\* list: a run leaves the execution loop only after every entry has been
\* through it.
C20_MoveFailureIsLocal == [][MoveFailureIsLocal]_vars

\* a move has failed for one source, which is still in place beside its
\* parts, and a later job of the same run has written its parts
C20_Witness ==
    \E k1, k2 \in 1..Len(jobs_done) :
        /\ k1 < k2
        /\ \E e \in Range(skiplog) :
              e.action = "MOVE FAILED" /\ e.path = jobs_done[k1].input_file
        /\ jobs_done[k1].input_file \in DOMAIN fs
        /\ Range(jobs_done[k1].expected_parts) \subseteq DOMAIN fs
        /\ Len(CommandsFor(jobs_done[k2].input_file)) = jobs_done[k2].n_parts
        /\ Range(jobs_done[k2].result_parts) = Range(jobs_done[k2].expected_parts)

\* the step appends entries to the action log, the last of them naming path
AppendsEntryFor(path) ==
    /\ Len(skiplog') > Len(skiplog)
    /\ SubSeq(skiplog', 1, Len(skiplog)) = skiplog
    /\ skiplog'[Len(skiplog')].path = path

\* the classification loop of a real run passes a candidate and skips it as
\* a part, as too small or as complete, or moves it
SkipsOrMoves ==
    /\ pc = "classify" /\ ~dry_run /\ ci' = ci + 1
    /\ \/ lists'.to_skip_part # lists.to_skip_part
       \/ lists'.to_skip_small # lists.to_skip_small
       \/ lists'.to_skip_complete # lists.to_skip_complete
       \/ fs' # fs

\* an ffmpeg command of the job fails and ends the run
JobFails == pc = "split" /\ exit_code'.at = "ffmpeg"

LogsEveryOutcome ==
    /\ Len(skiplog') >= Len(skiplog)
    /\ SubSeq(skiplog', 1, Len(skiplog)) = skiplog
    /\ SkipsOrMoves => AppendsEntryFor(candidates[ci][1])
    /\ JobFails => AppendsEntryFor(job.input_file)
    /\ (pc = "split" /\ fs' # fs /\ JobReturns) => AppendsEntryFor(job.input_file)

\* C21: Action log completeness.  In a real run every step that skips a
\* candidate (as a part, as too small, as complete), moves a source or ends
\* a job in failure appends an entry naming the file to the action log, and
\* no step changes or removes an entry the log already holds.
C21_LogComplete == [][LogsEveryOutcome]_vars

\* the pattern of the command line holds no placeholder at all
PlaceholderLess == ~Contains(args.pattern, "#")

\* a run starts with a pattern without placeholder: it prints the warning
\* and goes on to classify the candidates it found, or ends with status 0
\* when it found none; and no candidate is classified before the warning
WarnsAndGoesOn ==
    /\ (run' = run + 1 /\ PlaceholderLess)
           => /\ warned'
              /\ pc' = "classify" \/ exit_code' = [code |-> 0, at |-> "candidates"]
    /\ (lists' # lists /\ lists' # NoLists /\ PlaceholderLess) => warned

\* C22: Placeholder-less pattern.  A run whose pattern holds no '#' is not
\* ended for it and prints a warning before it classifies or plans anything.
C22_PlaceholderLessWarned == [][WarnsAndGoesOn]_vars

\* a run with a pattern without placeholder has warned and planned a split
C22_Witness ==
    /\ PlaceholderLess
    /\ warned
    /\ lists.to_split # <<>>
    /\ pc = "execute"

\* the expected parts of the running job that are on a disk
PresentParts(disk) == Range(job.expected_parts) \cap disk

\* New, Partial or Complete, as a rank
AggregateRank(disk) ==
    IF PresentParts(disk) = {} THEN 0
    ELSE IF PresentParts(disk) = Range(job.expected_parts) THEN 2
    ELSE 1

\* a step of the running job
JobRuns == pc = "split" /\ job # NoJob

JobOnlyAdvances ==
    JobRuns
        => /\ PresentParts(DOMAIN fs) \subseteq DOMAIN fs'
           /\ AggregateRank(DOMAIN fs') >= AggregateRank(DOMAIN fs)
           /\ \A q \in DOMAIN job.kept : q \in DOMAIN fs' /\ fs'[q] = job.kept[q]

\* C23: Monotonic progress.  While a job executes, the set of its expected
\* part paths that exist never shrinks, the parts it found when it started
\* keep their content, and its aggregate state never moves back from
\* Complete to Partial or from Partial to New.
C23_MonotonicProgress == [][JobOnlyAdvances]_vars

\* a job that found one part has written another, failed on a third
\* command or not, and the first is still there
C23_Witness ==
    /\ JobRuns
    /\ DOMAIN job.kept # {}
    /\ Len(CommandsFor(job.input_file)) >= 1
    /\ AggregateRank(DOMAIN fs) = 2

\* the ffmpeg command the step runs
CommandRun == invocations'[Len(invocations')]

\* the step runs an ffmpeg command
RunsCommand == Len(invocations') = Len(invocations) + 1

\* the commands of the present run for a file that exited nonzero
FailedFor(input_file) ==
    {k \in 1..Len(CommandsFor(input_file)) :
        CommandsFor(input_file)[k].outcome \in {"fail", "partial"}}

AbortsWithoutCleanup ==
    /\ RunsCommand => FailedFor(CommandRun.input_file) = {}
    /\ (RunsCommand /\ CommandRun.outcome \in {"fail", "partial"})
           => /\ pc' = "exited" /\ exit_code'.code # 0
              /\ DOMAIN fs \subseteq DOMAIN fs'
              /\ \A q \in DOMAIN fs \ {CommandRun.out_file} : fs'[q] = fs[q]

\* C24: Abort on nonzero exit.  When ffmpeg exits nonzero for a part of a
\* job, no command is run for a later part of that job, and no file is
\* deleted: what the failed command left and every part written before it
\* stay on disk.
C24_AbortOnNonzeroExit == [][AbortsWithoutCleanup]_vars

\* the second command of a job with a third part to go has exited nonzero,
\* and the part the first one wrote is on disk
C24_Witness ==
    /\ pc = "exited" /\ exit_code.at = "ffmpeg"
    /\ job.next = 2
    /\ Len(job.missing_indices) >= 3
    /\ job.expected_parts[job.missing_indices[1]] \in DOMAIN fs
    /\ CommandsFor(job.input_file)[Len(CommandsFor(job.input_file))].outcome
           \in {"fail", "partial"}

(***************************************************************************)
(* C25: time ranges of the parts of a job.                                 *)
(***************************************************************************)
\* x and y as multiples of the same power of two
Aligned(x, y) ==
    LET e == IF x.e <= y.e THEN x.e ELSE y.e
    IN [x |-> BigShl(x.m, x.e - e), y |-> BigShl(y.m, y.e - e), e |-> e]

\* x and y are the same number
SameValue(x, y) == Aligned(x, y).x = Aligned(x, y).y

\* x + y, not rounded
ExactSum(x, y) == [m |-> BigAdd(Aligned(x, y).x, Aligned(x, y).y), e |-> Aligned(x, y).e]

PartDuration == part_duration_of(tDuration, tParts)

CmdsBuilt == {tCmds[k] : k \in 1..Len(tCmds)}

\* the command of part i starts at i * partDuration
StartsAtIndex == \A c \in CmdsBuilt : c.ss = FloatMul(PartDuration, FloatOfInt(c.part))

\* every part but the last is bounded to partDuration; the last is not bounded
BoundedButLast ==
    \A c \in CmdsBuilt : c.t = IF c.part < tParts - 1 THEN <<PartDuration>> ELSE <<>>

\* the commands are those of the missing indices, whichever they are
ByIndexOnly ==
    \A k \in 1..Len(tCmds) :
        tCmds[k] = ffmpeg_cmd(tMissing[k], tParts, PartDuration)

\* a bounded part ends where the next part starts
Contiguous ==
    \A c, d \in CmdsBuilt :
        d.part = c.part + 1 => SameValue(d.ss, ExactSum(c.ss, c.t[1]))

\* C25: the command for part i (0-indexed) starts at i * partDuration, is
\* bounded to partDuration unless i is the last index, depends only on the
\* index, the part count and the duration, and consecutive ranges are
\* contiguous: no gap, no overlap.
C25_TimeRanges == StartsAtIndex /\ BoundedButLast /\ ByIndexOnly /\ Contiguous

\* the first three hold
C25_RangesByIndex == StartsAtIndex /\ BoundedButLast /\ ByIndexOnly

(***************************************************************************)
(* C26: the suffix format_part_filename generates.                         *)
(***************************************************************************)
DigitChars == "0123456789"
DigitOf(d) == SubSeq(DigitChars, d + 1, d + 1)

\* n in decimal, without leading zeros
RECURSIVE Decimal(_)
Decimal(n) == IF n < 10 THEN DigitOf(n) ELSE Decimal(n \div 10) \o DigitOf(n % 10)

\* the last w decimal digits of n, leading zeros included
RECURSIVE FixedWidth(_, _)
FixedWidth(n, w) ==
    IF w = 0 THEN "" ELSE FixedWidth(n \div 10, w - 1) \o DigitOf(n % 10)

\* how n is written in a name of total parts
Written(n, total) ==
    IF total < 10 THEN Decimal(n) ELSE FixedWidth(n, Len(Decimal(total)))

\* the pattern read once, left to right: '##' is the total, any other '#'
\* the index
RECURSIVE Rendered(_, _, _)
Rendered(pattern, index, total) ==
    IF pattern = "" THEN ""
    ELSE IF StartsWith(pattern, "##")
         THEN Written(total, total)
              \o Rendered(SubSeq(pattern, 3, Len(pattern)), index, total)
    ELSE IF StartsWith(pattern, "#")
         THEN Written(index, total)
              \o Rendered(SubSeq(pattern, 2, Len(pattern)), index, total)
    ELSE SubSeq(pattern, 1, 1)
         \o Rendered(SubSeq(pattern, 2, Len(pattern)), index, total)

\* C26: format_part_filename writes the index and the total unpadded when
\* total < 10 and zero-padded to the number of digits of the total when
\* total >= 10; every '##' of the pattern becomes the total and every other
\* '#' the index; part 3 of 12 under the default pattern is
\* <base>_part_03_of_12<ext>, part 1 of 3 is <base>_part_1_of_3<ext>.
C26_GeneratedSuffix ==
    nIndex > 0 =>
        /\ nName = nBase \o Rendered(nPattern, nIndex, nTotal) \o nExt
        /\ (nPattern = DefaultPattern /\ nIndex = 3 /\ nTotal = 12)
               => nName = nBase \o "_part_03_of_12" \o nExt
        /\ (nPattern = DefaultPattern /\ nIndex = 1 /\ nTotal = 3)
               => nName = nBase \o "_part_1_of_3" \o nExt

\* part 3 of 12 has been generated under the default pattern
C26_Witness ==
    /\ nPattern = DefaultPattern /\ nIndex = 3 /\ nTotal = 12
    /\ nName = nBase \o "_part_03_of_12" \o nExt

(***************************************************************************)
(* C27: relocation never overwrites.                                       *)
(***************************************************************************)
\* the files of the archive directories
Archived(f) == {q \in DOMAIN f : EndsWith(q[1], " source")}

\* <stem>_<k><ext> of a file name
Numbered(name, k) == splitext(name)[1] \o "_" \o ToString(k) \o splitext(name)[2]

\* the source q, moved by the step, is now at d
MovedTo(q, d) ==
    /\ d \in DOMAIN fs' \ DOMAIN fs
    /\ d[1] = q[1] \o " source"
    /\ fs'[d] = fs[q]

\* d carries the name of q if that is free in the archive, else the first
\* free numbered name
FirstFreeName(q, d) ==
    IF <<d[1], q[2]>> \notin DOMAIN fs THEN d[2] = q[2]
    ELSE \E k \in 1..Cardinality(Archived(fs)) :
            /\ d[2] = Numbered(q[2], k)
            /\ \A j \in 1..(k - 1) : <<d[1], Numbered(q[2], j)>> \in DOMAIN fs

KeepsArchive ==
    /\ \A q \in Archived(fs) : q \in DOMAIN fs' /\ fs'[q] = fs[q]
    /\ \A q \in DOMAIN fs \ DOMAIN fs' :
          \E d \in DOMAIN fs' : MovedTo(q, d) /\ FirstFreeName(q, d)

\* C27: Relocation never overwrites.  A moved source arrives in the sibling
\* directory '<source directory name> source' under its own name if that is
\* free, otherwise under <stem>_<k><ext> for the smallest k >= 1 whose name
\* is free, k being at most the number of archived files; every file of the
\* archive before the move is still there, unchanged, after it.
C27_NeverOverwrites == [][KeepsArchive]_vars

\* a.ts has been archived as a_2.ts, beside the a.ts and a_1.ts found there
C27_Witness ==
    /\ {<<"in source", "a.ts">>, <<"in source", "a_1.ts">>} \subseteq DOMAIN fs_start
    /\ <<"in", "a.ts">> \in DOMAIN fs_start
    /\ <<"in", "a.ts">> \notin DOMAIN fs
    /\ <<"in source", "a_2.ts">> \in DOMAIN fs
    /\ fs[<<"in source", "a_2.ts">>] = fs_start[<<"in", "a.ts">>]
    /\ \A q \in Archived(fs_start) : fs[q] = fs_start[q]

(***************************************************************************)
(* C28: the part count against the limit.                                  *)
(***************************************************************************)
\* the planner has run on a size above the limit
PlannedAboveLimit == pParts # 0 /\ pSize > pMax

\* n equal parts are within the limit
WithinMax(n) == pSize <= n * pMax

\* n equal parts are within 0.98 of the limit
WithinSafeTarget(n) == 100 * pSize <= n * 98 * pMax

PlannedParts(c) == Range(ExpectedOf(c[1], n_parts_of(args, SizeAtStart(c[1]))))

\* every expected part of the candidate exists as the run starts
FoundComplete(c) == PlannedParts(c) \subseteq DOMAIN fs_start

\* the completion records of a source in a log
RecordsIn(log, source_file) == SelectSeq(log, LAMBDA r : r.source = source_file)

\* the step leaves the candidate where it is, as it is, and adds no
\* completion record for it
Untouched(c) ==
    /\ c[1] \in DOMAIN fs'
    /\ fs'[c[1]] = fs[c[1]]
    /\ RecordsIn(details', c[1]) = RecordsIn(details, c[1])

LeavesCompleteInPlace ==
    Contains(args.pattern, "#") =>
        \A c \in Range(candidates) :
            c[1] \in DOMAIN fs => (Untouched(c) \/ ~FoundComplete(c))

\* C29: with a pattern containing a placeholder, a candidate whose expected
\* parts all exist when the run classifies it is not relocated by any step
\* of that run and gets no completion record in it, with --moveprocessed or
\* without; so a source whose job was cut short after its last part was
\* created stays in place in every later run.
C29_CompleteLeftInPlace == [][LeavesCompleteInPlace]_vars

\* the first run ended abnormally with the parts of a source created and the
\* source in place; the second run, with --moveprocessed, found the source
\* complete and has finished, and the source is still there
C29_Witness ==
    /\ run = 2 /\ ~dry_run /\ args.moveprocessed /\ Contains(args.pattern, "#")
    /\ pc = "exited" /\ exit_code.at = "finished"
    /\ history[1].exit_code.code # 0
    /\ \E c \in Range(candidates) :
          /\ c[1] \in Range(lists.to_skip_complete)
          /\ FoundComplete(c)
          /\ PlannedParts(c) # {}
          /\ ~(PlannedParts(c) \subseteq DOMAIN history[1].fs_start)
          /\ c[1] \in DOMAIN fs
          /\ RecordsIn(details, c[1]) = <<>>

(***************************************************************************)
(* C30: the order of the post-action of a job.                             *)
(***************************************************************************)
\* the step moves the source of the running job away
RelocatesJobSource ==
    /\ pc = "split"
    /\ job.input_file \in DOMAIN fs
    /\ job.input_file \notin DOMAIN fs'

\* every missing part of the running job has had its command, and every
\* expected part is on disk
LastPartCreated ==
    /\ job.next > Len(job.missing_indices)
    /\ \A i \in Range(job.missing_indices) :
          \E c \in Range(CommandsOfRun) :
              c.input_file = job.input_file /\ c.out_file = job.expected_parts[i]
    /\ AllPartsExist(job)

\* the step appends the whole completion record of the running job, the
\* probes of the source and of every part having passed
AppendsFullRecord ==
    /\ Len(details') = Len(details) + 1
    /\ SubSeq(details', 1, Len(details)) = details
    /\ details'[Len(details')].source = job.input_file
    /\ details'[Len(details')].closed
    /\ Range(details'[Len(details')].parts) = Range(job.expected_parts)
    /\ \A q \in Range(job.expected_parts) \cup {job.input_file} : duration_ok(fs, q)

\* the step ends the run while the completion record is written
RecordAborts == pc = "split" /\ pc' = "exited" /\ exit_code'.at = "ffprobe"

PostActionInOrder ==
    /\ RelocatesJobSource
           => /\ args.moveprocessed
              /\ LastPartCreated
              /\ AppendsFullRecord
    /\ RecordAborts
           => /\ fs' = fs
              /\ job.input_file \in DOMAIN fs'
              /\ Len(details') = Len(details) + 1
              /\ ~details'[Len(details')].closed

\* C30: with --moveprocessed the source of a job is moved only after the
\* job's last missing part has been created and only with the job's
\* completion record appended in full; when a probe of the source or of a
\* part ends the run while the record is written, the source has not been
\* moved.
C30_PostActionOrder == [][PostActionInOrder]_vars

\* a run with --moveprocessed has ended on the probe of a part while writing
\* the record of a job whose parts are all created; the source is in place
C30_Witness ==
    /\ args.moveprocessed /\ ~dry_run
    /\ pc = "exited" /\ exit_code.at = "ffprobe"
    /\ job.n_parts > 0
    /\ job.next > Len(job.missing_indices)
    /\ AllPartsExist(job)
    /\ job.input_file \in DOMAIN fs
    /\ details # <<>>
    /\ details[Len(details)].source = job.input_file
    /\ ~details[Len(details)].closed

====
